---- MODULE Spec2Model ----
(***************************************************************************)
(* A model of the growth-reference data pipeline:                          *)
(*   src/02_standardize_data.py  (WHO/CDC "simple" family)                 *)
(*   src/process_data.py         (LMS "statistical" family)                *)
(*                                                                         *)
(* Conventions.                                                            *)
(*  - Strings are TLA+ strings; "x in s" of Python is Contains(x, s).      *)
(*  - A cell of a table is a record [k, n, d]: k = "num" is the number     *)
(*    n/d (a reduced fraction, so arithmetic is exact and the rounding of  *)
(*    floating point is not modelled), k = "nan" a missing cell (NaN),     *)
(*    k = "str" a text cell, k = "none" Python's None.                     *)
(*  - A table (DataFrame) is [cols, rows]: the column labels in order and  *)
(*    the rows in order, each row the sequence of its cells by column.     *)
(***************************************************************************)
EXTENDS Integers, Sequences, FiniteSets, TLC

VARIABLES
    pc,           \* position of the run being modelled
    dfs,          \* combine_dataframes: the input tables
    x_col,        \* combine_dataframes: the x-axis column
    combined,     \* combine_dataframes: the value returned
    cdc_file,     \* process_cdc_file: the file read
    results,      \* process_cdc_file: the list returned
    who_files,    \* main: sorted(who_dir.glob("*.csv"))
    cdc_files,    \* main: sorted(cdc_dir.glob("*.csv"))
    who_data,     \* main: the WHO buckets, {(measurement, gender): [df, ...]}
    cdc_data,     \* main: the CDC buckets
    written,      \* main: the files written to OUTPUT_DIR, in order
    pos,          \* main: the index of the loop pc is in
    col,          \* standardize_column_name: the raw column label
    names,        \* standardize_column_name: the values returned so far
    lms_df,       \* process_lms_data: df
    lms_arg,      \* process_lms_data: measurement_type and gender
    row_i,        \* process_lms_data: the row df.iterrows() is at
    result_rows,  \* process_lms_data: result_rows
    lms_ret,      \* process_lms_data: the value returned
    stat_file,    \* process_excel_file, process_csv_file: the file
    outdir,       \* the files written to OUTPUT_DIR (raw_data), in order
    metadata,     \* metadata["files"]
    stat_ret      \* process_excel_file, process_csv_file: the value returned

combineVars == <<dfs, x_col, combined>>
cdcVars == <<cdc_file, results>>
mainVars == <<who_files, cdc_files, who_data, cdc_data, written, pos>>
headerVars == <<col, names>>
lmsVars == <<lms_df, lms_arg, row_i, result_rows, lms_ret>>
statVars == <<stat_file, outdir, metadata, stat_ret>>
vars == <<pc, combineVars, cdcVars, mainVars, headerVars, lmsVars, statVars>>

(***************************************************************************)
(* Bounds of the model.                                                    *)
(***************************************************************************)
MaxCombineRows == 4
MaxCdcRows == 3
MaxWhoFiles == 2
MaxCdcFiles == 1
MaxHeaderWords == 2
MaxLmsRows == 2
MaxSheets == 2

(***************************************************************************)
(* Numbers and cells.                                                      *)
(***************************************************************************)
Abs(a) == IF a < 0 THEN -a ELSE a

RECURSIVE GCD(_, _)
GCD(a, b) == IF b = 0 THEN a ELSE GCD(b, a % b)

\* The number n/d as a cell, reduced, with a positive denominator.
Num(n, d) ==
    LET s == IF d < 0 THEN -1 ELSE 1
        g == GCD(Abs(n), Abs(d))
    IN  [k |-> "num", n |-> (s * n) \div g, d |-> (s * d) \div g]

Whole(n) == Num(n, 1)
NaN == [k |-> "nan", n |-> 0, d |-> 1]
Text == [k |-> "str", n |-> 0, d |-> 1]
None == [k |-> "none", n |-> 0, d |-> 1]

IsNum(c) == c.k = "num"
\* pd.isna: NaN and None are missing
isna(c) == c.k \in {"nan", "none"}

Mul(a, b) == Num(a.n * b.n, a.d * b.d)
Div(a, b) == Num(a.n * b.d, a.d * b.n)
Less(a, b) == a.n * b.d < b.n * a.d

(***************************************************************************)
(* Strings.                                                                *)
(***************************************************************************)
\* Python: sub in s
Contains(sub, s) ==
    \E i \in 1..(Len(s) - Len(sub) + 1) : SubSeq(s, i, i + Len(sub) - 1) = sub

\* Python: s.endswith(suffix)
EndsWith(s, suffix) ==
    /\ Len(suffix) <= Len(s)
    /\ SubSeq(s, Len(s) - Len(suffix) + 1, Len(s)) = suffix

LowerChar(c) ==
    CASE c = "A" -> "a" [] c = "B" -> "b" [] c = "C" -> "c" [] c = "D" -> "d"
      [] c = "E" -> "e" [] c = "F" -> "f" [] c = "G" -> "g" [] c = "H" -> "h"
      [] c = "I" -> "i" [] c = "J" -> "j" [] c = "K" -> "k" [] c = "L" -> "l"
      [] c = "M" -> "m" [] c = "N" -> "n" [] c = "O" -> "o" [] c = "P" -> "p"
      [] c = "Q" -> "q" [] c = "R" -> "r" [] c = "S" -> "s" [] c = "T" -> "t"
      [] c = "U" -> "u" [] c = "V" -> "v" [] c = "W" -> "w" [] c = "X" -> "x"
      [] c = "Y" -> "y" [] c = "Z" -> "z" [] OTHER -> c

\* Python: s.lower()
RECURSIVE LowerFrom(_, _)
LowerFrom(s, i) ==
    IF i > Len(s) THEN "" ELSE LowerChar(SubSeq(s, i, i)) \o LowerFrom(s, i + 1)

Lower(s) == LowerFrom(s, 1)

(***************************************************************************)
(* Tables.                                                                 *)
(***************************************************************************)
HasCol(cols, c) == \E i \in 1..Len(cols) : cols[i] = c

ColIndex(cols, c) == CHOOSE i \in 1..Len(cols) : cols[i] = c

\* the sequence s without its i-th element
RemoveAt(s, i) == SubSeq(s, 1, i - 1) \o SubSeq(s, i + 1, Len(s))

\* the columns of `more` appended to `cols`, those already present left out
RECURSIVE AddCols(_, _)
AddCols(cols, more) ==
    IF more = <<>> THEN cols
    ELSE AddCols(IF HasCol(cols, Head(more)) THEN cols ELSE Append(cols, Head(more)),
                 Tail(more))

\* the row of a table with columns `from`, laid out by the columns `to`:
\* a column the table lacks is filled with NaN
Reindex(row, from, to) ==
    [j \in 1..Len(to) |->
        IF HasCol(from, to[j]) THEN row[ColIndex(from, to[j])] ELSE NaN]

ReindexRows(t, to) == [r \in 1..Len(t.rows) |-> Reindex(t.rows[r], t.cols, to)]

RECURSIVE ConcatCols(_)
ConcatCols(ts) ==
    IF ts = <<>> THEN <<>>
    ELSE AddCols(ts[1].cols, ConcatCols(Tail(ts)))

RECURSIVE ConcatRows(_, _)
ConcatRows(ts, cols) ==
    IF ts = <<>> THEN <<>>
    ELSE ReindexRows(Head(ts), cols) \o ConcatRows(Tail(ts), cols)

\* pd.concat(dfs, ignore_index=True): the union of the columns in order of
\* first appearance, the rows of the tables one table after the other
Concat(ts) == [cols |-> ConcatCols(ts), rows |-> ConcatRows(ts, ConcatCols(ts))]

(***************************************************************************)
(* combine_dataframes                                                      *)
(***************************************************************************)
\* the order sort_values sorts by: numbers ascending, NaN last
KeyLess(a, b) ==
    \/ IsNum(a) /\ ~IsNum(b)
    \/ IsNum(a) /\ IsNum(b) /\ Less(a, b)

\* DataFrame.sort_values(x_col) with its default kind='quicksort': the rows
\* in ascending order of the key.  The default sort is not stable, so rows
\* with equal keys may come out in any order: every ascending arrangement
\* is an outcome.
RECURSIVE SortOutcomes(_, _)
SortOutcomes(rows, xi) ==
    IF rows = <<>> THEN {<<>>}
    ELSE LET least == {i \in 1..Len(rows) :
                          \A j \in 1..Len(rows) : ~KeyLess(rows[j][xi], rows[i][xi])}
         IN  UNION {{<<rows[i]>> \o s : s \in SortOutcomes(RemoveAt(rows, i), xi)}
                    : i \in least}

sort_values(t, x) ==
    {[cols |-> t.cols, rows |-> s] : s \in SortOutcomes(t.rows, ColIndex(t.cols, x))}

RECURSIVE KeepRows(_, _, _)
KeepRows(rows, keep(_), i) ==
    IF i > Len(rows) THEN <<>>
    ELSE (IF keep(i) THEN <<rows[i]>> ELSE <<>>) \o KeepRows(rows, keep, i + 1)

\* a bug: drop_duplicates(keep='last') without subset=[x_col] compares whole rows
drop_duplicates_whole_row(t, x) ==
    LET keep(i) == \A j \in (i + 1)..Len(t.rows) : t.rows[j] # t.rows[i]
    IN  [cols |-> t.cols, rows |-> KeepRows(t.rows, keep, 1)]

\* DataFrame.drop_duplicates(subset=[x_col], keep='last'): a row stays when
\* no later row has the same x (NaN counts as equal to NaN)
drop_duplicates(t, x) ==
    LET xi == ColIndex(t.cols, x)
        keep(i) == \A j \in (i + 1)..Len(t.rows) : t.rows[j][xi] # t.rows[i][xi]
    IN  [cols |-> t.cols, rows |-> KeepRows(t.rows, keep, 1)]

NoTable == [cols |-> <<>>, rows |-> <<>>]
Frame(t) == [none |-> FALSE, df |-> t]
NoFrame == [none |-> TRUE, df |-> NoTable]

\* the values combine_dataframes(dfs, x_col) can return
combine_dataframes(ts, x) ==
    IF ts = <<>> THEN {NoFrame}
    ELSE {Frame(drop_duplicates(s, x)) : s \in sort_values(Concat(ts), x)}

(***************************************************************************)
(* Column operations of the simple family.                                 *)
(***************************************************************************)
\* [c for c in cols if c != x]
RECURSIVE Without(_, _)
Without(cols, x) ==
    IF cols = <<>> THEN <<>>
    ELSE (IF Head(cols) = x THEN <<>> ELSE <<Head(cols)>>) \o Without(Tail(cols), x)

\* df[cols]
Select(t, cols) == [cols |-> cols, rows |-> ReindexRows(t, cols)]

\* cols = [x] + [c for c in df.columns if c != x]; df = df[cols]
MoveFirst(t, x) == Select(t, <<x>> \o Without(t.cols, x))

\* df.drop(c, axis=1)
DropCol(t, c) == Select(t, Without(t.cols, c))

\* df.rename(columns={from: to})
RenameCol(t, from, to) ==
    [cols |-> [j \in 1..Len(t.cols) |-> IF t.cols[j] = from THEN to ELSE t.cols[j]],
     rows |-> t.rows]

\* weeks / 4.33 on a cell: NaN stays NaN
weeks_to_months(weeks) ==
    IF IsNum(weeks) THEN Div(weeks, Num(433, 100)) ELSE weeks

\* df['Month'] = weeks_to_months(df['Week']); df = df.drop('Week', axis=1):
\* an existing Month column is overwritten in place, a new one comes last
WeekToMonth(t) ==
    LET wi == ColIndex(t.cols, "Week")
        set == IF HasCol(t.cols, "Month")
               THEN [cols |-> t.cols,
                     rows |-> [r \in 1..Len(t.rows) |->
                                 [t.rows[r] EXCEPT ![ColIndex(t.cols, "Month")] =
                                      weeks_to_months(t.rows[r][wi])]]]
               ELSE [cols |-> Append(t.cols, "Month"),
                     rows |-> [r \in 1..Len(t.rows) |->
                                 Append(t.rows[r], weeks_to_months(t.rows[r][wi]))]]
    IN  DropCol(set, "Week")

(***************************************************************************)
(* process_who_file                                                        *)
(***************************************************************************)
WHO_MEASUREMENT_MAP ==
    << <<"bmi", "bmifa">>, <<"lhfa", "lhfa">>, <<"wfa", "wfa">>,
       <<"hcfa", "hcfa">>, <<"acfa", "acfa">>, <<"ssfa", "ssfa">>,
       <<"tsfa", "tsfa">>, <<"wfl", "wfl">>, <<"wfh", "wfh">> >>

CDC_MEASUREMENT_MAP ==
    << <<"wtageinf", "wfa">>, <<"wtage", "wfa">>, <<"lenageinf", "lhfa">>,
       <<"statage", "hfa">>, <<"hcageinf", "hcfa">>, <<"wtleninf", "wfl">>,
       <<"wtstat", "wfh">>, <<"bmiage", "bmifa">> >>

\* for pattern, meas_type in MAP.items(): if pattern in filename: ... break
\* ("" stands for None: no pattern matched)
RECURSIVE MeasurementOf(_, _)
MeasurementOf(filename, map) ==
    IF map = <<>> THEN ""
    ELSE IF Contains(Head(map)[1], filename) THEN Head(map)[2]
         ELSE MeasurementOf(filename, Tail(map))

\* a bug: a file without a gender word is taken for boys
who_gender_default(filename) ==
    IF Contains("girls", filename) \/ Contains("female", filename) THEN "girls"
    ELSE "boys"

\* the gender of a WHO file ("" stands for None)
who_gender(filename) ==
    IF Contains("boys", filename) \/ Contains("male", filename) THEN "boys"
    ELSE IF Contains("girls", filename) \/ Contains("female", filename) THEN "girls"
    ELSE ""

NoResult == [none |-> TRUE, measurement |-> "", gender |-> "", df |-> NoTable]
Result(m, g, t) == [none |-> FALSE, measurement |-> m, gender |-> g, df |-> t]

\* a file is [stem, readable, df]: pd.read_csv raises when it is not readable
process_who_file(file) ==
    LET filename == Lower(file.stem)
        measurement == MeasurementOf(filename, WHO_MEASUREMENT_MAP)
        gender == who_gender(filename)
        df == file.df
    IN  IF measurement = "" THEN NoResult
        ELSE IF gender = "" THEN NoResult
        ELSE IF ~file.readable THEN NoResult
        ELSE IF measurement \in {"wfl", "wfh"}
             THEN IF HasCol(df.cols, "Length")
                  THEN Result(measurement, gender, MoveFirst(df, "Length"))
                  ELSE IF HasCol(df.cols, "Height")
                       THEN Result(measurement, gender, MoveFirst(df, "Height"))
                       ELSE NoResult
             ELSE IF HasCol(df.cols, "Week")
                  THEN Result(measurement, gender, MoveFirst(WeekToMonth(df), "Month"))
                  ELSE IF ~HasCol(df.cols, "Month")
                       THEN NoResult
                       ELSE Result(measurement, gender, MoveFirst(df, "Month"))

(***************************************************************************)
(* process_cdc_file                                                        *)
(***************************************************************************)
\* a bug: every row that is not a boy's is taken for a girl's
FilterSexElse(df, sex_code) ==
    LET si == ColIndex(df.cols, "Sex")
        keep(r) == IF sex_code = 1 THEN df.rows[r][si] = Whole(1)
                   ELSE df.rows[r][si] # Whole(1)
    IN  [cols |-> df.cols, rows |-> KeepRows(df.rows, keep, 1)]

\* df[df['Sex'] == sex_code]
FilterSex(df, sex_code) ==
    LET si == ColIndex(df.cols, "Sex")
        keep(r) == df.rows[r][si] = Whole(sex_code)
    IN  [cols |-> df.cols, rows |-> KeepRows(df.rows, keep, 1)]

\* for sex_code, gender in [(1, 'boys'), (2, 'girls')]: ...
SplitByGender(df, measurement, x) ==
    LET part(sex_code, gender) ==
            LET gender_df == FilterSex(df, sex_code)
            IN  IF Len(gender_df.rows) > 0
                THEN <<[measurement |-> measurement, gender |-> gender,
                        df |-> MoveFirst(DropCol(gender_df, "Sex"), x)]>>
                ELSE <<>>
    IN  part(1, "boys") \o part(2, "girls")

process_cdc_file(file) ==
    LET filename == Lower(file.stem)
        measurement == MeasurementOf(filename, CDC_MEASUREMENT_MAP)
        df == file.df
    IN  IF measurement = "" THEN <<>>
        ELSE IF ~file.readable THEN <<>>
        ELSE IF measurement \in {"wfl", "wfh"}
             THEN IF ~HasCol(df.cols, "Sex") THEN <<>>
                  ELSE IF HasCol(df.cols, "Length")
                       THEN SplitByGender(df, measurement, "Length")
                  ELSE IF HasCol(df.cols, "Height")
                       THEN SplitByGender(df, measurement, "Height")
                  ELSE IF HasCol(df.cols, "Stature")
                       THEN SplitByGender(df, measurement, "Stature")
                  ELSE <<>>
             ELSE IF ~HasCol(df.cols, "Sex") \/ ~HasCol(df.cols, "Agemos") THEN <<>>
                  ELSE SplitByGender(RenameCol(df, "Agemos", "Month"), measurement, "Month")

(***************************************************************************)
(* main of 02_standardize_data.py                                          *)
(***************************************************************************)
\* data[(measurement, gender)].append(df) on a defaultdict(list), held as
\* the sequence of its items in insertion order
AddToBucket(data, measurement, gender, df) ==
    IF \E k \in 1..Len(data) : data[k].key = <<measurement, gender>>
    THEN [k \in 1..Len(data) |->
            IF data[k].key = <<measurement, gender>>
            THEN [data[k] EXCEPT !.dfs = Append(@, df)]
            ELSE data[k]]
    ELSE Append(data, [key |-> <<measurement, gender>>, dfs |-> <<df>>])

RECURSIVE AddAll(_, _)
AddAll(data, rs) ==
    IF rs = <<>> THEN data
    ELSE AddAll(AddToBucket(data, Head(rs).measurement, Head(rs).gender, Head(rs).df),
                Tail(rs))

\* first_col if first_col in ['Month', 'Length', 'Height', 'Stature'] else 'Month'
XColOf(ts) ==
    IF Len(ts) > 0
    THEN IF ts[1].cols[1] \in {"Month", "Length", "Height", "Stature"}
         THEN ts[1].cols[1] ELSE "Month"
    ELSE "Month"

OutputName(key, source) == key[1] \o "_" \o key[2] \o "_" \o source \o ".csv"

\* the loops of main in order; a loop over nothing is passed over
NextLoop(loop) ==
    CASE loop = "who_loop" -> "cdc_loop"
      [] loop = "cdc_loop" -> "save_who"
      [] loop = "save_who" -> "save_cdc"
      [] OTHER -> "done"

RECURSIVE Settle(_, _, _)
Settle(loop, p, len) ==
    IF loop = "done" THEN [pc |-> "done", pos |-> 0]
    ELSE IF p <= len[loop] THEN [pc |-> loop, pos |-> p]
         ELSE Settle(NextLoop(loop), 1, len)

LoopLengths(who, cdc) ==
    [who_loop |-> Len(who_files), cdc_loop |-> Len(cdc_files),
     save_who |-> Len(who), save_cdc |-> Len(cdc)]

(***************************************************************************)
(* standardize_column_name                                                 *)
(***************************************************************************)
\* Python: s.strip() with no argument strips white space, s.strip('_') the
\* underscores: here the characters of the set `chars`
RECURSIVE LStripFrom(_, _, _)
LStripFrom(s, chars, i) ==
    IF i <= Len(s) /\ SubSeq(s, i, i) \in chars THEN LStripFrom(s, chars, i + 1)
    ELSE SubSeq(s, i, Len(s))

LStrip(s, chars) == LStripFrom(s, chars, 1)

RECURSIVE RStripFrom(_, _, _)
RStripFrom(s, chars, i) ==
    IF i >= 1 /\ SubSeq(s, i, i) \in chars THEN RStripFrom(s, chars, i - 1)
    ELSE SubSeq(s, 1, i)

RStrip(s, chars) == RStripFrom(s, chars, Len(s))

Strip(s, chars) == RStrip(LStrip(s, chars), chars)

WordChars ==
    {"a", "b", "c", "d", "e", "f", "g", "h", "i", "j", "k", "l", "m", "n", "o",
     "p", "q", "r", "s", "t", "u", "v", "w", "x", "y", "z",
     "A", "B", "C", "D", "E", "F", "G", "H", "I", "J", "K", "L", "M", "N", "O",
     "P", "Q", "R", "S", "T", "U", "V", "W", "X", "Y", "Z",
     "0", "1", "2", "3", "4", "5", "6", "7", "8", "9", "_"}

\* re.sub(r'[^a-zA-Z0-9_]', '_', s)
RECURSIVE SubNonWordFrom(_, _)
SubNonWordFrom(s, i) ==
    IF i > Len(s) THEN ""
    ELSE (IF SubSeq(s, i, i) \in WordChars THEN SubSeq(s, i, i) ELSE "_")
         \o SubNonWordFrom(s, i + 1)

SubNonWord(s) == SubNonWordFrom(s, 1)

\* re.sub(r'_+', '_', s)
RECURSIVE SubUnderscoresFrom(_, _)
SubUnderscoresFrom(s, i) ==
    IF i > Len(s) THEN ""
    ELSE IF i < Len(s) /\ SubSeq(s, i, i + 1) = "__" THEN SubUnderscoresFrom(s, i + 1)
         ELSE SubSeq(s, i, i) \o SubUnderscoresFrom(s, i + 1)

SubUnderscores(s) == SubUnderscoresFrom(s, 1)

\* the dict `mappings` in its order
mappings ==
    << <<"week/month", "age_weeks">>, <<"years", "age_years">>,
       <<"age", "age_years">>, <<"(years)", "age_years">>,
       <<"week", "age_weeks">>, <<"month", "age_months">>,
       <<"skeletal age", "skeletal_age">>, <<"ht. (inches)", "height_inches">>,
       <<"mature height", "mature_height_pct">>, <<"chart", "reference">> >>

\* for key, value in mappings.items(): if key in col_lower: return value
\* ("" when no key is in col_lower)
RECURSIVE FirstMapping(_, _)
FirstMapping(col_lower, map) ==
    IF map = <<>> THEN ""
    ELSE IF Contains(Head(map)[1], col_lower) THEN Head(map)[2]
         ELSE FirstMapping(col_lower, Tail(map))

standardize_column_name(c) ==
    LET stripped == Strip(c, {" "})
        col_lower == Lower(stripped)
        mapped == FirstMapping(col_lower, mappings)
    IN  IF mapped # "" THEN mapped
        ELSE Lower(Strip(SubUnderscores(SubNonWord(stripped)), {"_"}))

(***************************************************************************)
(* process_lms_data                                                        *)
(***************************************************************************)
\* age_cols = [col for col in df.columns if 'age' in ... or 'week' in ... or
\* 'month' in ...]: the places of those columns
AgeCols(cols) ==
    SelectSeq([j \in 1..Len(cols) |-> j],
              LAMBDA j : \/ Contains("age", Lower(cols[j]))
                         \/ Contains("week", Lower(cols[j]))
                         \/ Contains("month", Lower(cols[j])))

NoAges == [age_years |-> None, age_weeks |-> None, age_months |-> None]

\* a bug: the thresholds taken inclusive (<= 2 years, <= 52 weeks)
ExtractAgeInclusive(age_val) ==
    IF IsNum(age_val)
    THEN IF ~Less(Whole(2), age_val)
         THEN [age_years |-> age_val,
               age_weeks |-> Mul(age_val, Num(521775, 10000)),
               age_months |-> Mul(age_val, Whole(12))]
         ELSE IF ~Less(Whole(52), age_val)
              THEN [age_weeks |-> age_val,
                    age_years |-> Div(age_val, Num(521775, 10000)),
                    age_months |-> Div(age_val, Num(4348, 1000))]
              ELSE [age_months |-> age_val,
                    age_years |-> Div(age_val, Whole(12)),
                    age_weeks |-> Mul(age_val, Num(4348, 1000))]
    ELSE [age_years |-> None, age_weeks |-> None, age_months |-> None]

\* "Extract age": isinstance(age_val, (int, float)) holds of a number and
\* not of a text cell
ExtractAge(age_val) ==
    IF IsNum(age_val)
    THEN IF Less(age_val, Whole(2))
         THEN [age_years |-> age_val,
               age_weeks |-> Mul(age_val, Num(521775, 10000)),
               age_months |-> Mul(age_val, Whole(12))]
         ELSE IF Less(age_val, Whole(52))
              THEN [age_weeks |-> age_val,
                    age_years |-> Div(age_val, Num(521775, 10000)),
                    age_months |-> Div(age_val, Num(4348, 1000))]
              ELSE [age_months |-> age_val,
                    age_years |-> Div(age_val, Whole(12)),
                    age_weeks |-> Mul(age_val, Num(4348, 1000))]
    ELSE NoAges

\* row[col] if not pd.isna(row[col]) else None
OrNone(cell) == IF ~isna(cell) THEN cell ELSE None

\* the L, M, S of result_row; None also stands for a key not set
NoLMS == [L |-> None, M |-> None, S |-> None]

\* "Find L, M, S values": the columns from place j on
RECURSIVE GenericScan(_, _, _, _, _)
GenericScan(cols, row, measurement_type, j, lms) ==
    IF j > Len(cols) THEN lms
    ELSE LET col_lower == Lower(cols[j])
             next ==
                IF Contains(Lower(measurement_type), col_lower) \/ Contains("lms", col_lower)
                THEN IF EndsWith(col_lower, "l") \/ Contains("_l", col_lower)
                     THEN [lms EXCEPT !.L = OrNone(row[j])]
                     ELSE IF EndsWith(col_lower, "m") \/ Contains("_m", col_lower)
                          THEN [lms EXCEPT !.M = OrNone(row[j])]
                          ELSE IF EndsWith(col_lower, "s") \/ Contains("_s", col_lower)
                               THEN [lms EXCEPT !.S = OrNone(row[j])]
                               ELSE lms
                ELSE lms
         IN  GenericScan(cols, row, measurement_type, j + 1, next)

\* col_lower.split('_')[-1]
RECURSIVE LastPartFrom(_, _)
LastPartFrom(s, i) ==
    IF i >= 1 /\ SubSeq(s, i, i) # "_" THEN LastPartFrom(s, i - 1)
    ELSE SubSeq(s, i + 1, Len(s))

LastPart(s) == LastPartFrom(s, Len(s))

\* "Also check for gender-specific columns": the columns from place j on
RECURSIVE GenderScan(_, _, _, _, _)
GenderScan(cols, row, gender_prefix, j, lms) ==
    IF j > Len(cols) THEN lms
    ELSE LET col_lower == Lower(cols[j])
             last == LastPart(col_lower)
             next ==
                IF /\ Contains(gender_prefix, col_lower)
                   /\ Contains("l", col_lower)
                   /\ \/ Contains("height", col_lower) \/ Contains("weight", col_lower)
                      \/ Contains("bmi", col_lower) \/ Contains("hc", col_lower)
                THEN IF Contains("l", last) \/ EndsWith(col_lower, "l")
                     THEN [lms EXCEPT !.L = IF ~isna(row[j]) THEN row[j] ELSE lms.L]
                     ELSE IF Contains("m", last) \/ EndsWith(col_lower, "m")
                          THEN [lms EXCEPT !.M = IF ~isna(row[j]) THEN row[j] ELSE lms.M]
                          ELSE IF Contains("s", last) \/ EndsWith(col_lower, "s")
                               THEN [lms EXCEPT !.S = IF ~isna(row[j]) THEN row[j] ELSE lms.S]
                               ELSE lms
                ELSE lms
         IN  GenderScan(cols, row, gender_prefix, j + 1, next)

\* the L, M, S of a row after both scans (gender "" stands for None)
ScanLMS(cols, row, measurement_type, gender) ==
    LET generic == GenericScan(cols, row, measurement_type, 1, NoLMS)
    IN  IF gender # ""
        THEN GenderScan(cols, row, IF gender = "male" THEN "male" ELSE "female", 1, generic)
        ELSE generic

\* a bug: a row is kept only when L, M and S are all set
KeepsRowAllSet(cols, row, measurement_type, gender) ==
    LET lms == ScanLMS(cols, row, measurement_type, gender)
    IN  /\ ~isna(row[AgeCols(cols)[1]])
        /\ lms.L # None /\ lms.M # None /\ lms.S # None

\* whether the pass of the loop for `row` appends to result_rows
KeepsRow(cols, row, measurement_type, gender) ==
    /\ ~isna(row[AgeCols(cols)[1]])
    /\ ScanLMS(cols, row, measurement_type, gender).M # None

\* result_row of the pass of the loop for `row`
ResultRow(cols, row, measurement_type, gender) ==
    LET ages == ExtractAge(row[AgeCols(cols)[1]])
        lms == ScanLMS(cols, row, measurement_type, gender)
    IN  [measurement |-> measurement_type, gender |-> gender,
         age_years |-> ages.age_years, age_weeks |-> ages.age_weeks,
         age_months |-> ages.age_months,
         L |-> lms.L, M |-> lms.M, S |-> lms.S]

NoRows == [none |-> TRUE, rows |-> <<>>]

\* the for loop of process_lms_data from row r on
RECURSIVE LmsLoop(_, _, _, _, _)
LmsLoop(df, measurement_type, gender, r, acc) ==
    IF r > Len(df.rows) THEN acc
    ELSE LmsLoop(df, measurement_type, gender, r + 1,
                 IF KeepsRow(df.cols, df.rows[r], measurement_type, gender)
                 THEN Append(acc, ResultRow(df.cols, df.rows[r], measurement_type, gender))
                 ELSE acc)

\* process_lms_data as a function of its arguments
process_lms_data(df, measurement_type, gender) ==
    IF AgeCols(df.cols) = <<>> THEN NoRows
    ELSE LET rows == LmsLoop(df, measurement_type, gender, 1, <<>>)
         IN  IF rows # <<>> THEN [none |-> FALSE, rows |-> rows] ELSE NoRows

(***************************************************************************)
(* process_excel_file and process_csv_file                                 *)
(***************************************************************************)
\* "Determine measurement type from filename" ("" stands for None)
lms_measurement(filename) ==
    IF Contains("height", filename) \/ Contains("ht", filename) \/ Contains("len", filename)
    THEN "height"
    ELSE IF Contains("weight", filename) \/ Contains("wt", filename) THEN "weight"
    ELSE IF Contains("bmi", filename) THEN "bmi"
    ELSE IF Contains("hc", filename) \/ Contains("head", filename) \/ Contains("ofc", filename)
         THEN "head_circumference"
    ELSE ""

lms_gender(filename) ==
    IF Contains("boy", filename) \/ Contains("male", filename) THEN "male"
    ELSE IF Contains("girl", filename) \/ Contains("female", filename) THEN "female"
    ELSE ""

lms_age_range(filename) ==
    IF Contains("0-36", filename) \/ Contains("0_36", filename) THEN "0-36_months"
    ELSE IF Contains("2-20", filename) \/ Contains("2_20", filename) THEN "2-20_years"
    ELSE ""

\* df.columns = [standardize_column_name(col) for col in df.columns]
StandardizeColumns(df) ==
    [cols |-> [j \in 1..Len(df.cols) |-> standardize_column_name(df.cols[j])],
     rows |-> df.rows]

\* df.empty
IsEmpty(df) == Len(df.rows) = 0 \/ Len(df.cols) = 0

\* a written file: its name, the type of its provenance entry, its number
\* of rows, and the measurement and gender its rows carry ("" for None)
File(name, type, rows, measurement, gender) ==
    [name |-> name, type |-> type, rows |-> rows,
     measurement |-> measurement, gender |-> gender]

\* an entry of metadata["files"]; rows is -1 in an entry without the key
Entry(type, output, measurement, gender, age_range, rows) ==
    [type |-> type, output |-> output, measurement |-> measurement,
     gender |-> gender, age_range |-> age_range, rows |-> rows]

\* measurement_type or 'unknown'
OrUnknown(measurement_type) ==
    IF measurement_type # "" THEN measurement_type ELSE "unknown"

\* processed = process_lms_data(df, measurement_type or 'unknown', gender),
\* df with its columns standardized
SheetProcessed(stem, df) ==
    process_lms_data(StandardizeColumns(df),
                     OrUnknown(lms_measurement(Lower(stem))), lms_gender(Lower(stem)))

\* output_file = OUTPUT_DIR / f"{source_name}_{file_path.stem}_{sheet_name}.csv"
SheetOutputName(stem, source_name, sheet_name) ==
    source_name \o "_" \o stem \o "_" \o sheet_name \o ".csv"

\* "If no LMS data found, save raw CSV": the file and its entry
RawFile(stem, source_name, sheet) ==
    File(SheetOutputName(stem, source_name, sheet.sheet_name), "raw_csv",
         Len(sheet.df.rows), lms_measurement(Lower(stem)), lms_gender(Lower(stem)))

RawEntry(stem, source_name, sheet) ==
    Entry("raw_csv", SheetOutputName(stem, source_name, sheet.sheet_name),
          lms_measurement(Lower(stem)), lms_gender(Lower(stem)),
          lms_age_range(Lower(stem)), -1)

\* one pass of the loop over the sheets; acc is [results, files, entries]
SheetPass(acc, empty, processed, file, entry) ==
    IF empty THEN acc
    ELSE IF ~processed.none /\ processed.rows # <<>>
         THEN [acc EXCEPT !.results = @ \o processed.rows]
         ELSE [acc EXCEPT !.files = Append(@, file), !.entries = Append(@, entry)]

\* the loop over the sheets of process_excel_file from sheet k on
RECURSIVE SheetLoop(_, _, _, _)
SheetLoop(file, source_name, k, acc) ==
    IF k > Len(file.sheets) THEN acc
    ELSE SheetLoop(file, source_name, k + 1,
                   SheetPass(acc, IsEmpty(file.sheets[k].df),
                             SheetProcessed(file.stem, file.sheets[k].df),
                             RawFile(file.stem, source_name, file.sheets[k]),
                             RawEntry(file.stem, source_name, file.sheets[k])))

\* "Combine all results from this file" applied to what the loop leaves
CombineResults(acc, output_name) ==
    IF acc.results # <<>>
    THEN [files |-> Append(acc.files,
                           File(output_name, "processed_lms", Len(acc.results),
                                acc.results[1].measurement, acc.results[1].gender)),
          entries |-> Append(acc.entries,
                             Entry("processed_lms", output_name, "", "", "",
                                   Len(acc.results))),
          ret |-> TRUE]
    ELSE [files |-> acc.files, entries |-> acc.entries, ret |-> FALSE]

\* process_excel_file: [files, entries, ret], the files it writes, the
\* entries it appends to metadata["files"] and the value it returns
process_excel_file(file, source_name) ==
    IF ~file.readable THEN [files |-> <<>>, entries |-> <<>>, ret |-> FALSE]
    ELSE CombineResults(SheetLoop(file, source_name, 1,
                                  [results |-> <<>>, files |-> <<>>, entries |-> <<>>]),
                        source_name \o "_" \o file.stem \o "_processed.csv")

\* a CSV file written as it is, and its entry
CsvWritten(output_name, rows, measurement_type) ==
    [files |-> <<File(output_name, "csv", rows, measurement_type, "")>>,
     entries |-> <<Entry("csv", output_name, measurement_type, "", "", rows)>>,
     ret |-> TRUE]

\* a bug: a CSV file without a measurement in its name is passed over
process_csv_file_skipping(file, source_name) ==
    IF ~file.readable \/ lms_measurement(Lower(file.stem)) = ""
    THEN [files |-> <<>>, entries |-> <<>>, ret |-> FALSE]
    ELSE CsvWritten(source_name \o "_" \o file.stem \o "." \o file.ext,
                    Len(StandardizeColumns(file.sheets[1].df).rows),
                    lms_measurement(Lower(file.stem)))

\* process_csv_file: the table of a CSV file is file.sheets[1].df
process_csv_file(file, source_name) ==
    IF ~file.readable THEN [files |-> <<>>, entries |-> <<>>, ret |-> FALSE]
    ELSE CsvWritten(source_name \o "_" \o file.stem \o "." \o file.ext,
                    Len(StandardizeColumns(file.sheets[1].df).rows),
                    lms_measurement(Lower(file.stem)))

(***************************************************************************)
(* The parts of the state a specification does not use.                    *)
(***************************************************************************)
NoFile == [stem |-> "", readable |-> FALSE, df |-> NoTable]

IdleCombine == dfs = <<>> /\ x_col = "Month" /\ combined = NoFrame
IdleCdc == cdc_file = NoFile /\ results = <<>>
IdleMain ==
    /\ who_files = <<>> /\ cdc_files = <<>>
    /\ who_data = <<>> /\ cdc_data = <<>>
    /\ written = <<>> /\ pos = 0
IdleHeader == col = "" /\ names = <<>>
IdleLms ==
    /\ lms_df = NoTable /\ lms_arg = [measurement_type |-> "", gender |-> ""]
    /\ row_i = 0 /\ result_rows = <<>> /\ lms_ret = NoRows
IdleStat ==
    /\ stat_file = [stem |-> "", ext |-> "", readable |-> FALSE, sheets |-> <<>>]
    /\ outdir = <<>> /\ metadata = <<>> /\ stat_ret = FALSE

(***************************************************************************)
(* Specification SpecCombine: combine_dataframes on every sequence of      *)
(* tables of at most MaxCombineRows rows in all.                           *)
(***************************************************************************)
XValues == {Whole(0), Whole(1)}
MValues == {Whole(1), Whole(2)}
XColumns == {"Month", "Length"}

FlatRows == UNION {[1..n -> {<<x, m>> : x \in XValues, m \in MValues}]
                   : n \in 0..MaxCombineRows}

\* the rows cut into consecutive non-empty tables after each index of `cuts`
RECURSIVE Chunks(_, _, _, _)
Chunks(rows, cuts, from, i) ==
    IF i > Len(rows) THEN <<>>
    ELSE IF i = Len(rows) \/ i \in cuts
         THEN <<SubSeq(rows, from, i)>> \o Chunks(rows, cuts, i + 1, i + 1)
         ELSE Chunks(rows, cuts, from, i + 1)

TablesOf(rows, cuts, x) ==
    LET ch == Chunks(rows, cuts, 1, 1)
    IN  [t \in 1..Len(ch) |-> [cols |-> <<x, "M">>, rows |-> ch[t]]]

InitCombine ==
    /\ pc = "combine"
    /\ x_col \in XColumns
    /\ \E rows \in FlatRows : \E cuts \in SUBSET (1..(Len(rows) - 1)) :
          dfs = TablesOf(rows, cuts, x_col)
    /\ combined = NoFrame
    /\ IdleCdc
    /\ IdleMain
    /\ IdleHeader
    /\ IdleLms
    /\ IdleStat

CombineDataframes ==
    /\ pc = "combine"
    /\ combined' \in combine_dataframes(dfs, x_col)
    /\ pc' = "combined"
    /\ UNCHANGED <<dfs, x_col, cdcVars, mainVars, headerVars, lmsVars, statVars>>

NextCombine == CombineDataframes

SpecCombine == InitCombine /\ [][NextCombine]_vars

(***************************************************************************)
(* Specification SpecCdc: process_cdc_file on one file, its table drawn    *)
(* from the column layouts below with at most MaxCdcRows rows.  The Sex    *)
(* cells are drawn from SexCodes; the cell of row r in column j of the     *)
(* layout is the number 10 * j + r, so every row and column is told apart. *)
(***************************************************************************)
CdcStems == {"wtageinf", "WtLenInf_v2", "notes"}
SexCodes == {Whole(1), Whole(2), Whole(3)}
CdcLayouts ==
    { <<"Sex", "Agemos", "M">>, <<"Agemos", "M", "Sex">>,
      <<"Sex", "Length", "M">>, <<"M", "Sex", "Stature">>,
      <<"Sex", "Height", "Length">>, <<"Agemos", "Length">>,
      <<"Sex", "Month", "M">> }

CdcTable(cols, sexes) ==
    [cols |-> cols,
     rows |-> [r \in 1..Len(sexes) |->
                 [j \in 1..Len(cols) |->
                     IF cols[j] = "Sex" THEN sexes[r] ELSE Whole(10 * j + r)]]]

InitCdc ==
    /\ pc = "cdc_file"
    /\ \E stem \in CdcStems, readable \in BOOLEAN, cols \in CdcLayouts :
       \E sexes \in UNION {[1..n -> SexCodes] : n \in 0..MaxCdcRows} :
          cdc_file = [stem |-> stem, readable |-> readable, df |-> CdcTable(cols, sexes)]
    /\ results = <<>>
    /\ IdleCombine
    /\ IdleMain
    /\ IdleHeader
    /\ IdleLms
    /\ IdleStat

ProcessCdcFile ==
    /\ pc = "cdc_file"
    /\ results' = process_cdc_file(cdc_file)
    /\ pc' = "cdc_returned"
    /\ UNCHANGED <<cdc_file, combineVars, mainVars, headerVars, lmsVars, statVars>>

NextCdc == ProcessCdcFile

SpecCdc == InitCdc /\ [][NextCdc]_vars

(***************************************************************************)
(* Specification SpecMain: main of 02_standardize_data.py on directories   *)
(* of at most MaxWhoFiles and MaxCdcFiles files.  The file names are drawn *)
(* from the lists below, which are in sorted order as sorted(glob) leaves  *)
(* them.  The M cells of the file in place k of its list are 100 * k + r,  *)
(* so the rows of every file are told apart.                               *)
(***************************************************************************)
WhoStemList ==
    <<"WFA_Boys_0_13", "lhfa_female", "readme", "wfa_boys_0_5", "wfa_unisex",
      "wfl_girls">>
CdcStemList == <<"notes", "wtageinf", "wtleninf">>

\* the tables the file of each stem of WhoStemList may hold
WhoShapes ==
    <<{"week", "unreadable"}, {"month"}, {"month"}, {"month", "no_x"}, {"month"},
      {"length", "no_x"}>>
CdcShapes == {"age", "length", "no_sex"}

WhoTable(shape, k) ==
    CASE shape = "month" ->
           [cols |-> <<"Month", "M">>,
            rows |-> << <<Whole(0), Whole(100 * k + 1)>>,
                        <<Whole(1), Whole(100 * k + 2)>> >>]
      [] shape = "week" ->
           [cols |-> <<"Week", "M">>,
            rows |-> << <<Whole(0), Whole(100 * k + 1)>>,
                        <<Whole(13), Whole(100 * k + 2)>> >>]
      [] shape = "length" ->
           [cols |-> <<"M", "Length">>,
            rows |-> << <<Whole(100 * k + 1), Whole(45)>> >>]
      [] OTHER ->
           [cols |-> <<"M">>, rows |-> << <<Whole(100 * k + 1)>> >>]

CdcFileTable(shape, k) ==
    CASE shape = "age" ->
           [cols |-> <<"Sex", "Agemos", "M">>,
            rows |-> << <<Whole(1), Whole(0), Whole(100 * k + 1)>>,
                        <<Whole(2), Whole(0), Whole(100 * k + 2)>>,
                        <<Whole(1), Whole(1), Whole(100 * k + 3)>> >>]
      [] shape = "length" ->
           [cols |-> <<"Sex", "Length", "M">>,
            rows |-> << <<Whole(2), Whole(45), Whole(100 * k + 1)>> >>]
      [] OTHER ->
           [cols |-> <<"Agemos", "M">>,
            rows |-> << <<Whole(0), Whole(100 * k + 1)>> >>]

\* the strictly increasing sequences of at most `max` places of 1..n
Places(n, max) ==
    {p \in UNION {[1..m -> 1..n] : m \in 0..max} :
        \A a, b \in 1..Len(p) : a < b => p[a] < p[b]}

InitMain ==
    /\ \E wp \in Places(Len(WhoStemList), MaxWhoFiles) :
       \E ws \in [1..Len(wp) -> UNION {WhoShapes[k] : k \in 1..Len(WhoShapes)}] :
          /\ \A f \in 1..Len(wp) : ws[f] \in WhoShapes[wp[f]]
          /\ who_files = [f \in 1..Len(wp) |->
                         [stem |-> WhoStemList[wp[f]],
                          readable |-> ws[f] # "unreadable",
                          df |-> WhoTable(ws[f], wp[f])]]
    /\ \E cp \in Places(Len(CdcStemList), MaxCdcFiles) :
       \E cs \in [1..Len(cp) -> CdcShapes] :
          cdc_files = [f \in 1..Len(cp) |->
                         [stem |-> CdcStemList[cp[f]],
                          readable |-> TRUE,
                          df |-> CdcFileTable(cs[f], 10 + cp[f])]]
    /\ who_data = <<>>
    /\ cdc_data = <<>>
    /\ written = <<>>
    /\ pc = Settle("who_loop", 1, LoopLengths(<<>>, <<>>)).pc
    /\ pos = Settle("who_loop", 1, LoopLengths(<<>>, <<>>)).pos
    /\ IdleCombine
    /\ IdleCdc
    /\ IdleHeader
    /\ IdleLms
    /\ IdleStat

\* for file_path in who_files: one pass of the loop
MainWhoFile ==
    /\ pc = "who_loop"
    /\ LET result == process_who_file(who_files[pos])
       IN  who_data' = IF result.none THEN who_data
                       ELSE AddToBucket(who_data, result.measurement,
                                        result.gender, result.df)
    /\ pc' = Settle("who_loop", pos + 1, LoopLengths(who_data', cdc_data)).pc
    /\ pos' = Settle("who_loop", pos + 1, LoopLengths(who_data', cdc_data)).pos
    /\ UNCHANGED <<who_files, cdc_files, cdc_data, written, combineVars, cdcVars, headerVars, lmsVars, statVars>>

\* for file_path in cdc_files: one pass of the loop
MainCdcFile ==
    /\ pc = "cdc_loop"
    /\ cdc_data' = AddAll(cdc_data, process_cdc_file(cdc_files[pos]))
    /\ pc' = Settle("cdc_loop", pos + 1, LoopLengths(who_data, cdc_data')).pc
    /\ pos' = Settle("cdc_loop", pos + 1, LoopLengths(who_data, cdc_data')).pos
    /\ UNCHANGED <<who_files, cdc_files, who_data, written, combineVars, cdcVars, headerVars, lmsVars, statVars>>

\* one pass of a saving loop over the buckets `data`
Save(loop, data, source) ==
    /\ pc = loop
    /\ \E c \in combine_dataframes(data[pos].dfs, XColOf(data[pos].dfs)) :
          written' = IF c.none THEN written
                     ELSE Append(written, [name |-> OutputName(data[pos].key, source),
                                           df |-> c.df])
    /\ pc' = Settle(loop, pos + 1, LoopLengths(who_data, cdc_data)).pc
    /\ pos' = Settle(loop, pos + 1, LoopLengths(who_data, cdc_data)).pos
    /\ UNCHANGED <<who_files, cdc_files, who_data, cdc_data, combineVars, cdcVars, headerVars, lmsVars, statVars>>

MainSaveWho == Save("save_who", who_data, "who")

MainSaveCdc == Save("save_cdc", cdc_data, "cdc")

NextMain == MainWhoFile \/ MainCdcFile \/ MainSaveWho \/ MainSaveCdc

SpecMain == InitMain /\ [][NextMain]_vars

(***************************************************************************)
(* Specification SpecHeader: standardize_column_name on the labels made of *)
(* at most MaxHeaderWords of the words below, and on what it returned.     *)
(***************************************************************************)
HeaderWords ==
    {"Age", "Week", "Month", "Years", "(years)", "Skeletal Age", "Ht. (inches)",
     "Mature Height", "Chart", "Week/Month", "L", "BMI-S", "Height_M", " ", "__x"}

RECURSIVE Labels(_)
Labels(n) ==
    IF n = 0 THEN {""}
    ELSE Labels(n - 1) \cup {l \o " " \o w : l \in Labels(n - 1) \ {""}, w \in HeaderWords}
                       \cup HeaderWords

InitHeader ==
    /\ pc = "header"
    /\ col \in Labels(MaxHeaderWords)
    /\ names = <<>>
    /\ IdleCombine
    /\ IdleCdc
    /\ IdleMain
    /\ IdleLms
    /\ IdleStat

\* standardize_column_name applied to the label, then to what it returned
StandardizeColumnName ==
    /\ pc = "header"
    /\ Len(names) < 2
    /\ names' = Append(names, standardize_column_name(
                                 IF names = <<>> THEN col ELSE names[Len(names)]))
    /\ UNCHANGED <<pc, col, combineVars, cdcVars, mainVars, lmsVars, statVars>>

NextHeader == StandardizeColumnName

SpecHeader == InitHeader /\ [][NextHeader]_vars

(***************************************************************************)
(* Specification SpecLms: process_lms_data on tables of at most MaxLmsRows *)
(* rows.  The age cell of the first row is drawn from AgeCells, which has  *)
(* the ages about the thresholds of the heuristic; the later rows have an  *)
(* age cell of LaterAgeCells.  A cell of another column is missing or the  *)
(* number of its column; in a later row these cells are all missing or    *)
(* all set.                                                                *)
(***************************************************************************)
AgeCells ==
    {NaN, Text, Whole(0), Num(1999, 1000), Whole(2), Num(51999, 1000), Whole(52)}
LaterAgeCells == {NaN, Whole(60)}

LmsCalls ==
    { [cols |-> <<"age_years", "height_l", "height_m">>, measurement_type |-> "height", gender |-> ""],
      [cols |-> <<"age_months", "lms_m", "lms_s">>, measurement_type |-> "unknown", gender |-> "male"],
      [cols |-> <<"age_weeks", "male_height_m", "female_height_m">>, measurement_type |-> "weight", gender |-> "male"],
      [cols |-> <<"age_weeks", "male_height_m", "female_height_m">>, measurement_type |-> "weight", gender |-> "female"],
      [cols |-> <<"age_years", "height_m", "female_height_m">>, measurement_type |-> "height", gender |-> "female"],
      [cols |-> <<"age_years", "female_height_m", "height_m">>, measurement_type |-> "height", gender |-> "female"],
      [cols |-> <<"reference", "height_m", "height_s">>, measurement_type |-> "height", gender |-> ""] }

\* the cells the columns `cols` can have in a row in place r
LmsCellsAt(cols, r) ==
    LET ages == AgeCols(cols)
    IN  [j \in 1..Len(cols) |->
            IF \E k \in 1..Len(ages) : ages[k] = j
            THEN IF r = 1 THEN AgeCells ELSE LaterAgeCells
            ELSE IF cols[j] = "reference" THEN {Text}
                 ELSE {NaN, Whole(j)}]

\* the rows a table of the columns `cols` can have in place r
LmsRowsAt(cols, r) ==
    LET cells == LmsCellsAt(cols, r)
    IN  {row \in [1..Len(cols) -> UNION {cells[j] : j \in 1..Len(cols)}] :
            /\ \A j \in 1..Len(cols) : row[j] \in cells[j]
            /\ r = 1 \/ \A j, k \in 2..Len(cols) : isna(row[j]) = isna(row[k])}

LmsTables(cols) ==
    LET firsts == LmsRowsAt(cols, 1)
        laters == LmsRowsAt(cols, 2)
    IN  {[cols |-> cols, rows |-> <<>>]} \cup
        {[cols |-> cols, rows |-> <<first>> \o later] :
            first \in firsts,
            later \in UNION {[1..n -> laters] : n \in 0..(MaxLmsRows - 1)}}

InitLms ==
    /\ pc = "lms_call"
    /\ \E call \in LmsCalls :
          /\ lms_df \in LmsTables(call.cols)
          /\ lms_arg = [measurement_type |-> call.measurement_type, gender |-> call.gender]
    /\ row_i = 0
    /\ result_rows = <<>>
    /\ lms_ret = NoRows
    /\ IdleCombine
    /\ IdleCdc
    /\ IdleMain
    /\ IdleHeader
    /\ IdleStat

\* "Find age column": return None without one, else enter the loop
LmsFindAgeColumn ==
    /\ pc = "lms_call"
    /\ IF AgeCols(lms_df.cols) = <<>>
       THEN pc' = "lms_returned" /\ row_i' = row_i
       ELSE pc' = "lms_loop" /\ row_i' = 1
    /\ UNCHANGED <<lms_df, lms_arg, result_rows, lms_ret,
                   combineVars, cdcVars, mainVars, headerVars, statVars>>

\* for idx, row in df.iterrows(): one pass of the loop
LmsRow ==
    /\ pc = "lms_loop"
    /\ row_i <= Len(lms_df.rows)
    /\ result_rows' =
          IF KeepsRow(lms_df.cols, lms_df.rows[row_i], lms_arg.measurement_type, lms_arg.gender)
          THEN Append(result_rows,
                      ResultRow(lms_df.cols, lms_df.rows[row_i],
                                lms_arg.measurement_type, lms_arg.gender))
          ELSE result_rows
    /\ row_i' = row_i + 1
    /\ UNCHANGED <<pc, lms_df, lms_arg, lms_ret, combineVars, cdcVars, mainVars, headerVars, statVars>>

\* return pd.DataFrame(result_rows) if result_rows else None
LmsReturn ==
    /\ pc = "lms_loop"
    /\ row_i > Len(lms_df.rows)
    /\ lms_ret' = IF result_rows # <<>> THEN [none |-> FALSE, rows |-> result_rows]
                  ELSE NoRows
    /\ pc' = "lms_returned"
    /\ UNCHANGED <<lms_df, lms_arg, row_i, result_rows,
                   combineVars, cdcVars, mainVars, headerVars, statVars>>

NextLms == LmsFindAgeColumn \/ LmsRow \/ LmsReturn

SpecLms == InitLms /\ [][NextLms]_vars

(***************************************************************************)
(* Specification SpecStat: process_excel_file on a workbook of at most     *)
(* MaxSheets sheets and process_csv_file on a CSV file, the tables drawn   *)
(* from StatTables (their labels stay distinct when standardized).         *)
(***************************************************************************)
StatStems ==
    {"randomfile", "notes_boys", "cdc_weight_boys", "wt_girls", "Height_Female_0-36",
     "bmi_male_2_20", "hc_girl", "uk_length"}

StatTables ==
    { [cols |-> <<"Month", "LMS_M">>, rows |-> << <<Whole(1), Whole(5)>> >>],
      [cols |-> <<"Age", "Height_M">>, rows |-> << <<Whole(1), Whole(50)>>, <<Whole(2), NaN>> >>],
      [cols |-> <<"Chart", "Value">>, rows |-> << <<Text, Whole(1)>> >>],
      [cols |-> <<"Age">>, rows |-> <<>>] }

SheetNames == <<"Sheet1", "Sheet2", "Sheet3", "Sheet4">>

SOURCE_NAME == "cdc2000"

InitStat ==
    /\ pc = "stat_file"
    /\ \E stem \in StatStems, readable \in BOOLEAN :
          \/ \E tables \in UNION {[1..n -> StatTables] : n \in 0..MaxSheets} :
                stat_file = [stem |-> stem, ext |-> "xlsx", readable |-> readable,
                             sheets |-> [k \in 1..Len(tables) |->
                                           [sheet_name |-> SheetNames[k], df |-> tables[k]]]]
          \/ \E table \in StatTables :
                stat_file = [stem |-> stem, ext |-> "csv", readable |-> readable,
                             sheets |-> <<[sheet_name |-> "", df |-> table]>>]
    /\ outdir = <<>>
    /\ metadata = <<>>
    /\ stat_ret = FALSE
    /\ IdleCombine
    /\ IdleCdc
    /\ IdleMain
    /\ IdleHeader
    /\ IdleLms

\* for excel_file in dir_path.rglob("*.xls*"): process_excel_file(...)
ProcessExcelFile ==
    /\ pc = "stat_file"
    /\ stat_file.ext = "xlsx"
    /\ outdir' = outdir \o process_excel_file(stat_file, SOURCE_NAME).files
    /\ metadata' = metadata \o process_excel_file(stat_file, SOURCE_NAME).entries
    /\ stat_ret' = process_excel_file(stat_file, SOURCE_NAME).ret
    /\ pc' = "stat_done"
    /\ UNCHANGED <<stat_file, combineVars, cdcVars, mainVars, headerVars, lmsVars>>

\* for csv_file in dir_path.rglob("*.csv"): process_csv_file(...)
ProcessCsvFile ==
    /\ pc = "stat_file"
    /\ stat_file.ext = "csv"
    /\ outdir' = outdir \o process_csv_file(stat_file, SOURCE_NAME).files
    /\ metadata' = metadata \o process_csv_file(stat_file, SOURCE_NAME).entries
    /\ stat_ret' = process_csv_file(stat_file, SOURCE_NAME).ret
    /\ pc' = "stat_done"
    /\ UNCHANGED <<stat_file, combineVars, cdcVars, mainVars, headerVars, lmsVars>>

NextStat == ProcessExcelFile \/ ProcessCsvFile

SpecStat == InitStat /\ [][NextStat]_vars

(***************************************************************************)
(* Properties.                                                             *)
(***************************************************************************)
\* the x cells of the rows of a table
XsOf(t, x) == {t.rows[r][ColIndex(t.cols, x)] : r \in 1..Len(t.rows)}

\* C1: the table combine_dataframes returns for a non-empty sequence of
\* tables has pairwise different x values in strictly ascending order, and
\* its x values are exactly the x values of the input tables.
C1_UniqueAscendingSameXs ==
    (pc = "combined" /\ dfs # <<>>) =>
        LET out == combined.df
            xi == ColIndex(out.cols, x_col)
        IN  /\ ~combined.none
            /\ \A i, j \in 1..Len(out.rows) :
                   i < j => /\ out.rows[i][xi] # out.rows[j][xi]
                            /\ Less(out.rows[i][xi], out.rows[j][xi])
            /\ XsOf(out, x_col) = UNION {XsOf(dfs[t], x_col) : t \in 1..Len(dfs)}

\* C1 witness: two tables that share an x value were combined into a table
\* of two rows.
C1_Witness ==
    /\ pc = "combined"
    /\ Len(dfs) = 2
    /\ XsOf(dfs[1], x_col) \cap XsOf(dfs[2], x_col) # {}
    /\ Len(combined.df.rows) = 2

\* the last row of the concatenated input whose x is that of `row`
LastWithX(rows, xi, row) ==
    rows[CHOOSE i \in 1..Len(rows) :
            /\ rows[i][xi] = row[xi]
            /\ \A j \in (i + 1)..Len(rows) : rows[j][xi] # row[xi]]

\* C2 (as claimed): every row of the combined table is the last row with its
\* x in concatenation order, that is the row of the latest table that has
\* that x (and the last such row of that table).
C2_LaterTableWins ==
    (pc = "combined" /\ dfs # <<>>) =>
        LET all == Concat(dfs)
            xi == ColIndex(all.cols, x_col)
        IN  \A r \in 1..Len(combined.df.rows) :
               combined.df.rows[r] = LastWithX(all.rows, xi, combined.df.rows[r])

\* the places of the rows of df whose Sex cell is `code`, in row order
RowsWithSex(df, code) ==
    SelectSeq([r \in 1..Len(df.rows) |-> r],
              LAMBDA r : df.rows[r][ColIndex(df.cols, "Sex")] = Whole(code))

\* the raw x-axis column process_cdc_file needs for the measurement of the
\* file: Length, Height or Stature for a length-based chart, Agemos (written
\* out as Month) for an age-based chart; "" when the table lacks it
RawXCol(file) ==
    LET cols == file.df.cols
    IN  IF MeasurementOf(Lower(file.stem), CDC_MEASUREMENT_MAP) \in {"wfl", "wfh"}
        THEN IF HasCol(cols, "Length") THEN "Length"
             ELSE IF HasCol(cols, "Height") THEN "Height"
             ELSE IF HasCol(cols, "Stature") THEN "Stature" ELSE ""
        ELSE IF HasCol(cols, "Agemos") THEN "Agemos" ELSE ""

OutXCol(raw) == IF raw = "Agemos" THEN "Month" ELSE raw

C3_Applies ==
    /\ pc = "cdc_returned"
    /\ cdc_file.readable
    /\ MeasurementOf(Lower(cdc_file.stem), CDC_MEASUREMENT_MAP) # ""
    /\ HasCol(cdc_file.df.cols, "Sex")
    /\ RawXCol(cdc_file) # ""

\* the table process_cdc_file returned for `gender` is the rows of the file
\* with Sex = code in their order, without the Sex column, x-axis first; and
\* there is no such table when no row has that code
C3_GenderTable(code, gender) ==
    LET in == cdc_file.df
        picked == RowsWithSex(in, code)
        got == SelectSeq(results, LAMBDA res : res.gender = gender)
        raw == RawXCol(cdc_file)
    IN  IF picked = <<>> THEN got = <<>>
        ELSE /\ Len(got) = 1
             /\ LET out == got[1].df
                IN  /\ out.cols[1] = OutXCol(raw)
                    /\ ~HasCol(out.cols, "Sex")
                    /\ {out.cols[j] : j \in 1..Len(out.cols)} =
                          {OutXCol(in.cols[j]) : j \in 1..Len(in.cols)} \ {"Sex"}
                    /\ Len(out.rows) = Len(picked)
                    /\ \A r \in 1..Len(picked) : \A j \in 1..Len(in.cols) :
                          in.cols[j] # "Sex" =>
                             out.rows[r][ColIndex(out.cols, OutXCol(in.cols[j]))] =
                                in.rows[picked[r]][j]

\* C3: for a CDC table with a Sex column and the x-axis column of its chart,
\* process_cdc_file returns a boys table of exactly the rows with Sex = 1 and
\* a girls table of exactly the rows with Sex = 2, in row order, without the
\* Sex column and with the x-axis column first; rows with another code are
\* in neither; a gender without rows has no table.
C3_GenderSplit ==
    C3_Applies =>
        /\ C3_GenderTable(1, "boys")
        /\ C3_GenderTable(2, "girls")
        /\ \A k \in 1..Len(results) : results[k].gender \in {"boys", "girls"}

\* C3 witness: a table whose x-axis column is not first and that has rows of
\* both genders and a row with an invalid code was split into two tables.
C3_Witness ==
    /\ C3_Applies
    /\ cdc_file.df.cols[1] \notin {"Agemos", "Length", "Height", "Stature"}
    /\ RowsWithSex(cdc_file.df, 3) # <<>>
    /\ Len(results) = 2

\* the marks of the files whose rows are in the table (SpecMain: the M cells
\* of the file in place k are 100 * k + r)
MarksOf(df) ==
    IF HasCol(df.cols, "M")
    THEN {df.rows[r][ColIndex(df.cols, "M")].n \div 100 : r \in 1..Len(df.rows)}
    ELSE {}

BucketsOf(data) == {data[b] : b \in 1..Len(data)}
BucketTables(bucket) == {bucket.dfs[t] : t \in 1..Len(bucket.dfs)}
FilesOf(files) == {files[f] : f \in 1..Len(files)}
BucketMarks(data) == UNION {MarksOf(t) : t \in UNION {BucketTables(b) : b \in BucketsOf(data)}}
WrittenMarks == UNION {MarksOf(written[w].df) : w \in 1..Len(written)}

MatchesAny(stem, patterns) == \E p \in patterns : Contains(p, Lower(stem))

WhoPatterns == {"bmi", "lhfa", "wfa", "hcfa", "acfa", "ssfa", "tsfa", "wfl", "wfh"}
CdcPatterns == {"wtageinf", "wtage", "lenageinf", "statage", "hcageinf",
                "wtleninf", "wtstat", "bmiage"}
GenderWords == {"boys", "male", "girls", "female"}

\* a file the simple family cannot classify
WhoSkipped(file) ==
    ~MatchesAny(file.stem, WhoPatterns) \/ ~MatchesAny(file.stem, GenderWords)
CdcSkipped(file) == ~MatchesAny(file.stem, CdcPatterns)

\* a classifiable WHO file that can be read and has the x-axis column of its chart
WhoUsable(file) ==
    /\ ~WhoSkipped(file)
    /\ file.readable
    /\ IF MatchesAny(file.stem, {"wfl", "wfh"})
       THEN HasCol(file.df.cols, "Length") \/ HasCol(file.df.cols, "Height")
       ELSE HasCol(file.df.cols, "Week") \/ HasCol(file.df.cols, "Month")

CdcUsable(file) ==
    /\ ~CdcSkipped(file)
    /\ file.readable
    /\ HasCol(file.df.cols, "Sex")
    /\ RawXCol(file) # ""

\* C4: once the loops over the files are through, no bucket holds a row of a
\* file whose stem matches no measurement pattern (or, WHO, no gender
\* pattern), every other usable file has its table in a bucket, and at the
\* end of the run one file per bucket has been written, with the x values of
\* the bucket's tables and no row of a skipped file.
C4_UnclassifiableSkipped ==
    (pc \in {"save_who", "save_cdc", "done"}) =>
        /\ \A f \in FilesOf(who_files) :
              /\ WhoSkipped(f) => MarksOf(f.df) \cap (BucketMarks(who_data) \cup WrittenMarks) = {}
              /\ WhoUsable(f) => MarksOf(f.df) \subseteq BucketMarks(who_data)
        /\ \A f \in FilesOf(cdc_files) :
              /\ CdcSkipped(f) => MarksOf(f.df) \cap (BucketMarks(cdc_data) \cup WrittenMarks) = {}
              /\ CdcUsable(f) => MarksOf(f.df) \subseteq BucketMarks(cdc_data)
        /\ pc = "done" =>
              /\ Len(written) = Len(who_data) + Len(cdc_data)
              /\ \A b \in 1..Len(who_data) :
                    LET x == who_data[b].dfs[1].cols[1]
                    IN  /\ written[b].name = OutputName(who_data[b].key, "who")
                        /\ XsOf(written[b].df, x) =
                              XsOf(Concat(who_data[b].dfs), x)
              /\ \A b \in 1..Len(cdc_data) :
                    LET x == cdc_data[b].dfs[1].cols[1]
                        w == written[Len(who_data) + b]
                    IN  /\ w.name = OutputName(cdc_data[b].key, "cdc")
                        /\ XsOf(w.df, x) = XsOf(Concat(cdc_data[b].dfs), x)

\* C4 witness: a run with a readable WHO file without a gender word and an
\* unclassifiable CDC file beside a WHO file that was written out.
C4_Witness ==
    /\ pc = "done"
    /\ \E f \in FilesOf(who_files) :
          /\ MatchesAny(f.stem, WhoPatterns) /\ WhoSkipped(f)
          /\ f.readable /\ HasCol(f.df.cols, "Month")
    /\ \E f \in FilesOf(cdc_files) : CdcSkipped(f)
    /\ \E f \in FilesOf(who_files) : WhoUsable(f)
    /\ Len(written) = 1

\* SpecLms: the first row of the table has been through the loop and was
\* appended to result_rows, and its age cell is a number
FirstRowEmitted ==
    /\ pc \in {"lms_loop", "lms_returned"}
    /\ row_i >= 2
    /\ result_rows # <<>>
    /\ KeepsRow(lms_df.cols, lms_df.rows[1], lms_arg.measurement_type, lms_arg.gender)
    /\ IsNum(lms_df.rows[1][AgeCols(lms_df.cols)[1]])

FirstAge == lms_df.rows[1][AgeCols(lms_df.cols)[1]]

AgeFieldNames == {"age_years", "age_weeks", "age_months"}

\* the field the literal thresholds choose for the raw age v
ChosenField(v) ==
    IF Less(v, Whole(2)) THEN "age_years"
    ELSE IF Less(v, Whole(52)) THEN "age_weeks"
         ELSE "age_months"

C9_Idempotent ==
    Len(names) = 2 => names[2] = names[1]

\* the places of the rows before place `upto` that have a non-missing age
\* cell and whose M is set after both scans
KeptBefore(upto) ==
    SelectSeq([r \in 1..(upto - 1) |-> r],
              LAMBDA r :
                 /\ ~isna(lms_df.rows[r][AgeCols(lms_df.cols)[1]])
                 /\ ScanLMS(lms_df.cols, lms_df.rows[r],
                            lms_arg.measurement_type, lms_arg.gender).M # None)

\* C10: process_lms_data appends a row to result_rows for exactly the rows
\* that have a non-missing age cell and an M set after both scans, whatever
\* their L and S; every row it returns has M set; and it returns None when
\* no row was appended.
C10_EmitsIffAgeAndM ==
    (pc \in {"lms_loop", "lms_returned"} /\ AgeCols(lms_df.cols) # <<>>) =>
        LET kept == KeptBefore(row_i)
        IN  /\ Len(result_rows) = Len(kept)
            /\ \A k \in 1..Len(kept) :
                  /\ result_rows[k].M # None
                  /\ result_rows[k].M =
                        ScanLMS(lms_df.cols, lms_df.rows[kept[k]],
                                lms_arg.measurement_type, lms_arg.gender).M
            /\ pc = "lms_returned" =>
                  /\ lms_ret.none = (kept = <<>>)
                  /\ lms_ret.rows = result_rows
                  /\ \A k \in 1..Len(lms_ret.rows) : lms_ret.rows[k].M # None

\* C10 witness: of a table of two rows with an age, the one without M was
\* dropped and the one with M and without L was returned.
C10_Witness ==
    /\ pc = "lms_returned"
    /\ AgeCols(lms_df.cols) # <<>>
    /\ Len(lms_df.rows) = 2
    /\ \A r \in 1..2 : ~isna(lms_df.rows[r][AgeCols(lms_df.cols)[1]])
    /\ ~lms_ret.none
    /\ Len(lms_ret.rows) = 1
    /\ lms_ret.rows[1].L = None
    /\ lms_ret.rows[1].S = None

\* the buckets of who_data that hold a row of the file
BucketsWith(file) ==
    {b \in BucketsOf(who_data) :
        MarksOf(file.df) \cap UNION {MarksOf(t) : t \in BucketTables(b)} # {}}

\* C6 (as stated): after the loop over the WHO files, a file whose stem has
\* 'girls' or 'female' and no 'boy' is in girls buckets only, and a file whose
\* stem has 'boys' or 'male' and no 'female' is in boys buckets only; so a
\* stem with 'female' is never in a boys bucket.
C6_GenderVocabulary ==
    (pc \in {"cdc_loop", "save_who", "save_cdc", "done"}) =>
        \A f \in FilesOf(who_files) : \A b \in BucketsWith(f) :
            /\ (MatchesAny(f.stem, {"girls", "female"}) /\ ~MatchesAny(f.stem, {"boy"}))
                  => b.key[2] = "girls"
            /\ (MatchesAny(f.stem, {"boys", "male"}) /\ ~MatchesAny(f.stem, {"female"}))
                  => b.key[2] = "boys"

\* a file of the statistical family whose stem matches no measurement pattern
Unclassifiable(file) ==
    ~MatchesAny(file.stem, {"height", "ht", "len", "weight", "wt", "bmi", "hc", "head", "ofc"})

NonEmptySheets(file) ==
    {k \in 1..Len(file.sheets) :
        Len(file.sheets[k].df.rows) > 0 /\ Len(file.sheets[k].df.cols) > 0}

StatedMeasurement(stem) ==
    IF MatchesAny(stem, {"weight", "wt"}) /\ ~MatchesAny(stem, {"height", "len"})
    THEN "weight"
    ELSE IF MatchesAny(stem, {"height", "ht", "len"}) THEN "height"
    ELSE IF MatchesAny(stem, {"bmi"}) THEN "bmi"
    ELSE IF MatchesAny(stem, {"hc", "head", "ofc"}) THEN "head_circumference"
    ELSE ""

\* C7 (as stated): every file written for a stem carries the measurement
\* the stated vocabulary gives the stem; so a stem with 'weight' and
\* neither 'height' nor 'len' is classified as weight.
C7_MeasurementVocabulary ==
    (pc = "stat_done" /\ StatedMeasurement(stat_file.stem) # "") =>
        \A k \in 1..Len(outdir) :
            outdir[k].measurement = StatedMeasurement(stat_file.stem)

\* the places of the rows of lms_df with a numeric age cell and an M set
NumericAgeRows ==
    SelectSeq([r \in 1..Len(lms_df.rows) |-> r],
              LAMBDA r :
                 /\ IsNum(lms_df.rows[r][AgeCols(lms_df.cols)[1]])
                 /\ ScanLMS(lms_df.cols, lms_df.rows[r],
                            lms_arg.measurement_type, lms_arg.gender).M # None)

\* C11 (as stated): process_lms_data drops the rows whose age cell is
\* missing or not a number and goes on with the other rows, so the rows it
\* returns are those with a numeric age (and an M), and every row returned
\* has a number in at least one of age_years, age_weeks, age_months.
C11_BadAgeRowDropped ==
    (pc = "lms_returned" /\ AgeCols(lms_df.cols) # <<>>) =>
        /\ Len(lms_ret.rows) = Len(NumericAgeRows)
        /\ \A k \in 1..Len(lms_ret.rows) :
              \E f \in AgeFieldNames : IsNum(lms_ret.rows[k][f])

\* the first row of lms_df went through the loop and was appended
FirstRowKept ==
    /\ pc \in {"lms_loop", "lms_returned"}
    /\ row_i >= 2
    /\ result_rows # <<>>
    /\ KeepsRow(lms_df.cols, lms_df.rows[1], lms_arg.measurement_type, lms_arg.gender)

\* what the generic strategy alone leaves in L, M, S for the first row
FirstGeneric ==
    GenericScan(lms_df.cols, lms_df.rows[1], lms_arg.measurement_type, 1, NoLMS)

LMSNames == {"L", "M", "S"}

\* C12 (as stated): a field of L, M, S the generic strategy set keeps the
\* generic value whatever the gender columns hold.
C12_GenericValueKept ==
    FirstRowKept =>
        \A f \in LMSNames :
            FirstGeneric[f] # None => result_rows[1][f] = FirstGeneric[f]

\* C12 (as stated), second half: in a male table no field takes its value
\* from a column with 'female' in its name unless the generic strategy put
\* it there (the cells of a column are told apart by their number).
C12_FemaleColumnNotUsedForMale ==
    (FirstRowKept /\ lms_arg.gender = "male") =>
        \A f \in LMSNames : \A j \in 1..Len(lms_df.cols) :
            (/\ Contains("female", Lower(lms_df.cols[j]))
             /\ result_rows[1][f] = lms_df.rows[1][j])
                => FirstGeneric[f] = result_rows[1][f]

\* C12 (as stated): the gender-qualified strategy fills only the fields the
\* generic strategy left unset, and consults only the columns of the
\* table's own gender.
C12_GenderFillsOnlyUnset ==
    C12_GenericValueKept /\ C12_FemaleColumnNotUsedForMale

\* C13 (as stated): a label that is exactly the key of a rule of mappings,
\* in any letter case and with white space around it, is given the value
\* of that rule; so 'Skeletal Age' gives skeletal_age, 'Ht. (inches)'
\* height_inches, 'Mature Height' mature_height_pct and 'Chart' reference.
C13_EveryRuleReachable ==
    names # <<>> =>
        \A k \in 1..Len(mappings) :
            Lower(Strip(col, {" "})) = mappings[k][1] => names[1] = mappings[k][2]

=============================================================================
